---------------------------- MODULE Spec2Model ----------------------------
(***************************************************************************)
(* conduit-hyper: a synchronous conduit::Handler served behind hyper.      *)
(*                                                                         *)
(* The module holds five specifications over one set of variables:         *)
(*   Spec          the request lifecycle of Service::call (body buffering, *)
(*                 dispatch on the CpuPool, the handler invocation inside  *)
(*                 catch_unwind, the response handed to hyper);            *)
(*   SpecResponse  good_response / error_response as functions of what the *)
(*                 handler returned;                                       *)
(*   SpecPool      the same lifecycle for any pool size, with handler      *)
(*                 calls that may never return;                            *)
(*   SpecHeaders   the conduit::Headers view of Parts (find, has, all) and *)
(*                 host();                                                 *)
(*   SpecBody      the body cursor of ConduitRequest (body(), read) and    *)
(*                 method().                                               *)
(* Header names and values are sequences of bytes, bodies of responses are *)
(* strings, bodies of requests are sequences of bytes.                     *)
(***************************************************************************)
EXTENDS Integers, Sequences, FiniteSets, TLC

VARIABLES
    \* ---- Spec: Service::call ----
    phase,            \* per request: where its future is
    chunks,           \* per request: the chunks its client sends, in order
    pending,          \* per request: the chunks not yet arrived
    buffered,         \* per request: the accumulator of concat2
    conduit,          \* per request: the ConduitRequest of the worker task
    hcall,            \* per request: what handler.call did
    taskOut,          \* per request: the value the spawned task resolved to
    responses,        \* per request: the responses handed to the transport
    log,              \* per request: the server log lines its task wrote
    reactorPanicked,  \* a panic was resumed on the reactor thread
    extWritten,       \* per request: the keys its invocation put in its store
    overlapped,       \* per request: another request was being buffered or
                      \* was running on another worker when its handler ended
    poolSize,         \* the thread count Service::new gave CpuPool::new
    busy,             \* per pool: the threads that are running a task
    svc,              \* per request: the Service copy its call ran on
    hung,             \* per request: its handler call will never return
    runsOn,           \* per request: the thread its handler call runs on
    lifecycle,        \* per request: the lifecycle states it went through
    \* ---- SpecResponse ----
    gr_in,            \* the handler outcome and the HashMap iteration order
    gr_out,           \* the task's result for it
    \* ---- SpecHeaders ----
    hv_parts,         \* the header lines of the request
    hv_key,           \* the key looked up
    hv_out,           \* the results of find and has
    \* ---- SpecBody ----
    creq,             \* a ConduitRequest inside one handler invocation
    fullBody,         \* the body it was built from
    readOut,          \* what the handler read since its last body() call
    lastOp,           \* the handler's last operation on the body
    bodyCalls,        \* how many times the handler called body()
    methodOut         \* what method() gave the handler, once it asked

mainVars == <<phase, chunks, pending, buffered, conduit, hcall, taskOut,
              responses, log, reactorPanicked, extWritten, overlapped,
              poolSize, busy, svc, hung, runsOn, lifecycle>>
respVars == <<gr_in, gr_out>>
headVars == <<hv_parts, hv_key, hv_out>>
bodyVars == <<creq, fullBody, readOut, lastOp, bodyCalls, methodOut>>
vars == <<mainVars, respVars, headVars, bodyVars>>

-----------------------------------------------------------------------------
(* Bounds of the model. *)
MaxRequests == 2
MaxThreads == 2
MaxChunks == 2
MaxHeaderLines == 3
MaxBodyLen == 3
MaxBodyCalls == 2

\* The requests hyper hands to Service::call, numbered in that order.
Requests == 1..MaxRequests

Min(a, b) == IF a < b THEN a ELSE b

Range(s) == {s[i] : i \in 1..Len(s)}

\* All sequences over S of length at most n.
SeqsUpTo(S, n) == UNION {[1..k -> S] : k \in 0..n}

\* All orders (sequences without repeats) of the elements of the finite set S.
Perms(S) == {p \in [1..Cardinality(S) -> S] : Range(p) = S}

-----------------------------------------------------------------------------
(* Bytes of header names and values, as the http crate classifies them.    *)

\* "A", "a", "b", " " and the empty name
NameA == <<65>>
Namea == <<97>>
Nameb == <<98>>
NameSpace == <<97, 32>>
NameEmpty == <<>>

\* "x", "y", a value holding a line feed, a value holding an obs-text byte
ValX == <<120>>
ValY == <<121>>
ValLF == <<120, 10>>
ValObs == <<200>>

IsUpper(b) == b \in 65..90

IsTchar(b) ==
    \/ b \in 48..57
    \/ b \in 65..90
    \/ b \in 97..122
    \/ b \in {33, 35, 36, 37, 38, 39, 42, 43, 45, 46, 94, 95, 96, 124, 126}

\* The http crate's table of header-name bytes: a token byte maps to its
\* lower-case form, any other byte to 0.
HeaderNameByte(b) ==
    IF IsUpper(b) THEN b + 32 ELSE IF IsTchar(b) THEN b ELSE 0

\* HeaderName from a &str: normalised to lower case, or invalid.
HeaderName_from_str(k) ==
    IF Len(k) = 0 \/ \E i \in 1..Len(k) : HeaderNameByte(k[i]) = 0
    THEN [ok |-> FALSE, name |-> <<>>]
    ELSE [ok |-> TRUE, name |-> [i \in 1..Len(k) |-> HeaderNameByte(k[i])]]

\* HeaderValue from a &str: control bytes other than tab are refused.
HeaderValue_from_str(v) ==
    [ok |-> \A i \in 1..Len(v) : (v[i] >= 32 /\ v[i] # 127) \/ v[i] = 9,
     value |-> v]

\* HeaderValue::to_str: only visible ASCII decodes.
to_str(v) ==
    [ok |-> \A i \in 1..Len(v) : (v[i] >= 32 /\ v[i] < 127) \/ v[i] = 9,
     text |-> v]

-----------------------------------------------------------------------------
(* ErrorResponder and ResponseBuilder (lib.rs 255-287).                    *)
(* A built value is [kind, resp, log]: kind "response" carries the hyper   *)
(* response and the lines logged while building it, kind "panic" is an     *)
(* unwinding panic.                                                        *)

LogPrefix == "Internal Server Error: "
FixedBody == "Internal Server Error"

PanicMsg == "Application handler paniced"
WriteBodyMsg == "Error writing body"
InvalidStatusMsg == "invalid status code"
InvalidNameMsg == "invalid HTTP header name"
InvalidValueMsg == "failed to parse header value"

Panicking == [kind |-> "panic",
              resp |-> [status |-> 0, headers |-> <<>>, body |-> ""],
              log |-> <<>>]

\* error_response with the message put in the body sent to the client.
error_response_leaky(message) ==
    [kind |-> "response",
     resp |-> [status |-> 500, headers |-> <<>>, body |-> message],
     log |-> << <<LogPrefix, message>> >>]

\* error!("Internal Server Error: {}", message); Response::builder()
\*     .status(500).body(Body::from("Internal Server Error"))
error_response(message) ==
    [kind |-> "response",
     resp |-> [status |-> 500, headers |-> <<>>, body |-> FixedBody],
     log |-> << <<LogPrefix, message>> >>]

\* response.status.0 as u16: the u32 keeps its low 16 bits.
AsU16(n) == n % 65536

\* StatusCode::from_u16
StatusCode_from_u16(src) ==
    IF src < 100 \/ src >= 600
    THEN [ok |-> FALSE, code |-> 0]
    ELSE [ok |-> TRUE, code |-> src]

\* HeaderMap::append(name, value): the value joins the values the map holds
\* for the name, after them; a new name comes after the names held so far.
\* The map is the sequence of lines its iteration gives.
HeaderMap_append(lines, name, value) ==
    LET same == {i \in 1..Len(lines) : lines[i][1] = name}
    IN IF same = {} THEN Append(lines, <<name, value>>)
       ELSE LET last == CHOOSE i \in same : \A j \in same : j <= i
            IN SubSeq(lines, 1, last) \o << <<name, value>> >>
                  \o SubSeq(lines, last + 1, Len(lines))

\* builder.header(key, value): the first failure is kept, later calls do
\* nothing; a representable line is appended under its normalised name.
builder_header(b, key, value) ==
    IF b.err # "" THEN b
    ELSE LET n == HeaderName_from_str(key)
             v == HeaderValue_from_str(value)
         IN IF ~n.ok THEN [b EXCEPT !.err = InvalidNameMsg]
            ELSE IF ~v.ok THEN [b EXCEPT !.err = InvalidValueMsg]
            ELSE [b EXCEPT !.headers = HeaderMap_append(@, n.name, v.value)]

\* header_values taking the values from the last to the first.
RECURSIVE header_values_reversed(_, _, _)
header_values_reversed(b, key, values) ==
    IF values = <<>> THEN b
    ELSE builder_header(header_values_reversed(b, key, Tail(values)),
                        key, Head(values))

\* for value in values { builder.header(key.as_str(), value.as_str()); }
RECURSIVE header_values(_, _, _)
header_values(b, key, values) ==
    IF values = <<>> THEN b
    ELSE header_values(builder_header(b, key, Head(values)), key, Tail(values))

\* for (key, values) in response.headers { ... }: `order` is the order in
\* which the HashMap hands out its keys.
RECURSIVE header_loop(_, _, _)
header_loop(b, headers, order) ==
    IF order = <<>> THEN b
    ELSE header_loop(header_values(b, Head(order), headers[Head(order)]),
                     headers, Tail(order))

\* good_response going on with the bytes written before the writer failed.
good_response_partial(response, order) ==
    IF response.body.result = "panic" THEN Panicking
    ELSE LET sc == StatusCode_from_u16(AsU16(response.status))
             b0 == [status |-> sc.code, headers |-> <<>>, err |-> ""]
             b == header_loop(b0, response.headers, order)
         IN [kind |-> "response",
             resp |-> [status |-> b.status,
                       headers |-> b.headers,
                       body |-> response.body.bytes],
             log |-> <<>>]

\* fn good_response(mut response: conduit::Response) -> Response<Body>
good_response(response, order) ==
    IF response.body.result = "panic" THEN Panicking
    ELSE IF response.body.result = "err" THEN error_response(WriteBodyMsg)
    ELSE LET body == response.body.bytes
             sc == StatusCode_from_u16(AsU16(response.status))
         IN IF ~sc.ok THEN error_response(InvalidStatusMsg)
            ELSE LET b0 == [status |-> sc.code, headers |-> <<>>, err |-> ""]
                     b == header_loop(b0, response.headers, order)
                 IN IF b.err # "" THEN error_response(b.err)
                    ELSE [kind |-> "response",
                          resp |-> [status |-> b.status,
                                    headers |-> b.headers,
                                    body |-> body],
                          log |-> <<>>]

\* catch_unwind left out: the closure's value as it is, an unwinding panic
\* included.
catch_unwind_absent(built) ==
    [is_err |-> FALSE, value |-> built]

\* catch_unwind(closure): Err when the closure unwound.
catch_unwind(built) ==
    [is_err |-> built.kind = "panic", value |-> built]

\* spawned_task ending in .unwrap(): the caught panic is raised again.
spawned_task_unwrap(call, order) ==
    LET inner == IF call.kind = "panic" THEN Panicking
                 ELSE IF call.kind = "ok"
                      THEN good_response(call.response, order)
                      ELSE error_response(call.description)
        caught == catch_unwind(inner)
    IN IF caught.is_err THEN Panicking ELSE caught.value

\* The closure handed to pool.spawn_fn, from the handler's outcome on.
\*   handler.call(..).map(good_response)
\*          .unwrap_or_else(|e| error_response(e.description()))
\* inside catch_unwind, then .unwrap_or_else(|_| error_response(..)).
spawned_task(call, order) ==
    LET inner == IF call.kind = "panic" THEN Panicking
                 ELSE IF call.kind = "ok"
                      THEN good_response(call.response, order)
                      ELSE error_response(call.description)
        caught == catch_unwind(inner)
    IN IF caught.is_err THEN error_response(PanicMsg) ELSE caught.value

-----------------------------------------------------------------------------
(* What a handler can do (conduit::Handler::call): return Ok(response),    *)
(* return Err(e) with a description, or panic.                             *)

\* The handler's status numbers, a u32: around each edge of 100..599 and of
\* the u16 range, and 2^31 - 1, the largest number TLC represents (its low
\* 16 bits are all ones, as those of u32::MAX are).
Statuses == {0, 99, 100, 404, 599, 600, 65535, 65536,
             65635, 65636, 65736, 66135, 66136, 2147483647}

ResponseKeys == {NameA, Namea, Nameb, NameSpace}
ResponseValues == {ValX, ValY, ValLF}

\* The body writers: what write_body leaves in the buffer and how it ends.
WriterOk == [bytes |-> "hello", result |-> "ok"]
WriterErr == [bytes |-> "hel", result |-> "err"]
Writers == {WriterOk, WriterErr,
            [bytes |-> "", result |-> "ok"],
            [bytes |-> "", result |-> "err"],
            [bytes |-> "hel", result |-> "panic"]}

Descriptions == {"bad state", "db down"}

NoHeaders == [k \in {} |-> <<>>]
NoResponse == [status |-> 0, headers |-> NoHeaders, body |-> WriterOk]

Ok(response) == [kind |-> "ok", response |-> response, description |-> ""]
Err(d) == [kind |-> "err", response |-> NoResponse, description |-> d]
HandlerPanic == [kind |-> "panic", response |-> NoResponse, description |-> ""]

\* The values of key k among the (key, value) pairs l, in their order.
ValuesOf(l, k) ==
    LET T(x) == x[1] = k
        sel == SelectSeq(l, T)
    IN [i \in 1..Len(sel) |-> sel[i][2]]

\* The header map a handler builds by pushing the pairs l in turn, with the
\* keys of E present without any value.
MapOfPairs(l, E) ==
    [k \in {l[i][1] : i \in 1..Len(l)} \cup E |-> ValuesOf(l, k)]

\* The handler's header maps: HashMap<String, Vec<String>> holding at most
\* MaxHeaderLines values in all.
HeaderMaps ==
    {MapOfPairs(l, E) :
        l \in SeqsUpTo(ResponseKeys \X ResponseValues, MaxHeaderLines),
        E \in {{}} \cup {{k} : k \in ResponseKeys}}

ProbeMaps == {NoHeaders,
              MapOfPairs(<< <<NameA, ValX>>, <<NameA, ValY>> >>, {}),
              MapOfPairs(<< <<NameSpace, ValX>> >>, {}),
              MapOfPairs(<< <<Nameb, ValLF>> >>, {})}

\* Every outcome of handler.call the model draws from.
HandlerCalls ==
    {Ok([status |-> s, headers |-> h, body |-> w]) :
        s \in {404, 65736}, h \in HeaderMaps, w \in {WriterOk, WriterErr}}
    \cup {Ok([status |-> s, headers |-> h, body |-> w]) :
        s \in Statuses, h \in ProbeMaps, w \in Writers}
    \cup {Err(d) : d \in Descriptions}
    \cup {HandlerPanic}

-----------------------------------------------------------------------------
(* SpecResponse: the worker task's result as a function of the handler's   *)
(* outcome.                                                                *)

NotBuilt == [kind |-> "none",
             resp |-> [status |-> 0, headers |-> <<>>, body |-> ""],
             log |-> <<>>]

MainIdle ==
    /\ phase = <<>> /\ chunks = <<>> /\ pending = <<>> /\ buffered = <<>>
    /\ conduit = <<>> /\ hcall = <<>> /\ taskOut = <<>> /\ responses = <<>>
    /\ log = <<>> /\ reactorPanicked = FALSE
    /\ extWritten = <<>> /\ overlapped = <<>>
    /\ poolSize = 0 /\ busy = <<>> /\ svc = <<>> /\ hung = <<>>
    /\ runsOn = <<>>
    /\ lifecycle = <<>>
RespIdle == gr_in = HandlerPanic /\ gr_out = NotBuilt
HeadIdle == hv_parts = <<>> /\ hv_key = <<>> /\ hv_out = <<>>
BodyIdle ==
    /\ creq = <<>> /\ fullBody = <<>> /\ readOut = <<>>
    /\ lastOp = "none" /\ bodyCalls = 0 /\ methodOut = <<>>

InitResponse ==
    /\ gr_in \in HandlerCalls
    /\ gr_out = NotBuilt
    /\ MainIdle /\ HeadIdle /\ BodyIdle

\* The spawned closure runs on the handler's outcome; the HashMap hands out
\* its keys in some order.
RunTask ==
    /\ gr_out.kind = "none"
    /\ \E order \in Perms(DOMAIN gr_in.response.headers) :
          gr_out' = spawned_task(gr_in, order)
    /\ UNCHANGED <<gr_in, mainVars, headVars, bodyVars>>

NextResponse == RunTask

SpecResponse == InitResponse /\ [][NextResponse]_vars

-----------------------------------------------------------------------------
(* Claims about the response handed to the client (SpecResponse).          *)

FixedResponse == [status |-> 500, headers |-> <<>>, body |-> FixedBody]

ValidStatus(n) == n \in 100..599

\* Every (key, value) of the handler's map can be written as a header line.
Representable(h) ==
    \A k \in DOMAIN h : \A i \in 1..Len(h[k]) :
        HeaderName_from_str(k).ok /\ HeaderValue_from_str(h[k][i]).ok

ToLower(b) == IF b \in 65..90 THEN b + 32 ELSE b

\* Two header names are the same key: equal up to the case of ASCII letters.
SameKey(n, k) ==
    /\ Len(n) = Len(k)
    /\ \A i \in 1..Len(n) : ToLower(n[i]) = ToLower(k[i])

\* The values of the outgoing lines whose name is key k, in wire order.
LineValues(lines, k) ==
    LET T(x) == SameKey(x[1], k)
        sel == SelectSeq(lines, T)
    IN [i \in 1..Len(sel) |-> sel[i][2]]

RECURSIVE SumLen(_, _)
SumLen(h, S) ==
    IF S = {} THEN 0
    ELSE LET k == CHOOSE x \in S : TRUE
         IN Len(h[k]) + SumLen(h, S \ {k})

\* The handler outcome is a failure of one of the five classes.
FailureClass(call) ==
    \/ call.kind = "panic"
    \/ call.kind = "err"
    \/ /\ call.kind = "ok"
       /\ \/ call.response.body.result # "ok"
          \/ ~ValidStatus(call.response.status)
          \/ ~Representable(call.response.headers)

\* C4: whichever failure occurred (handler panic, handler-returned error,
\* body-writer failure, invalid status, unrepresentable header), the client
\* gets status 500, the fixed body and no headers.
C4_FailuresLookAlike ==
    (gr_out.kind # "none" /\ FailureClass(gr_in)) => gr_out.resp = FixedResponse

\* C5: a handler status in 100..599 is sent as it is, a status outside
\* 100..599 (the handler's status is a u32) gets the fallback 500 response,
\* and the status handed to the transport is always in 100..599.
C5_StatusMapping ==
    (gr_out.kind # "none" /\ gr_in.kind = "ok") =>
        LET r == gr_in.response
        IN /\ ValidStatus(gr_out.resp.status)
           /\ ~ValidStatus(r.status) => gr_out.resp = FixedResponse
           /\ (ValidStatus(r.status) /\ r.body.result = "ok"
                 /\ Representable(r.headers))
                 => gr_out.resp.status = r.status

\* The handler returned a response with a valid status, a writer that
\* succeeds and representable headers, and the task has built its response.
GoodCase ==
    /\ gr_out.kind # "none"
    /\ gr_in.kind = "ok"
    /\ ValidStatus(gr_in.response.status)
    /\ gr_in.response.body.result = "ok"
    /\ Representable(gr_in.response.headers)

\* C6 as stated: one line per (key, value); for each key as many lines as
\* values, in the order of the value list; the handler's status.
C6_HeaderLinesPerKey ==
    GoodCase =>
        LET h == gr_in.response.headers
        IN /\ gr_out.resp.status = gr_in.response.status
           /\ Len(gr_out.resp.headers) = SumLen(h, DOMAIN h)
           /\ \A k \in DOMAIN h : LineValues(gr_out.resp.headers, k) = h[k]

\* No other key of the map is the same header name up to letter case.
AloneInCase(h, k) == \A k2 \in DOMAIN h : SameKey(k2, k) => k2 = k

\* C6 amended: one line per (key, value), named by the key in lower case;
\* for each key that no other key of the map equals up to letter case, as
\* many lines as values, in the order of the value list; the handler's
\* status.
C6_HeaderLinesPerDistinctKey ==
    GoodCase =>
        LET h == gr_in.response.headers
        IN /\ gr_out.resp.status = gr_in.response.status
           /\ Len(gr_out.resp.headers) = SumLen(h, DOMAIN h)
           /\ \A i \in 1..Len(gr_out.resp.headers) :
                 \E k \in DOMAIN h :
                    /\ gr_out.resp.headers[i][1] = [j \in 1..Len(k) |-> ToLower(k[j])]
                    /\ \E j \in 1..Len(h[k]) : h[k][j] = gr_out.resp.headers[i][2]
           /\ \A k \in DOMAIN h :
                 AloneInCase(h, k) => LineValues(gr_out.resp.headers, k) = h[k]

\* A multi-valued key went out: status 404, key "A" with values x then y.
C6_Witness ==
    /\ GoodCase
    /\ gr_in.response.status = 404
    /\ NameA \in DOMAIN gr_in.response.headers
    /\ gr_in.response.headers[NameA] = <<ValX, ValY>>
    /\ gr_out.resp.headers = << <<Namea, ValX>>, <<Namea, ValY>> >>

-----------------------------------------------------------------------------
(* Spec: Service::call (lib.rs 211-235) for MaxRequests requests served by *)
(* one Service whose CpuPool has MaxThreads threads.                       *)

\* The j-th chunk the client of request r sends: one byte naming r and j.
ChunkOf(r, j) == <<10 * r + j>>

\* The request head every request of the model carries.
PartsOf(r) == [method |-> "GET", headers |-> << <<Namea, ValX>> >>]

NoRequest == [parts |-> [method |-> "", headers |-> <<>>],
              body |-> <<>>, pos |-> 0, extensions |-> {}]

\* ConduitRequest::new taking the extensions from one store shared by the
\* requests in the pool.
ConduitRequestNew_shared(parts, body) ==
    [parts |-> parts, body |-> body, pos |-> 0,
     extensions |-> UNION {conduit[q].extensions : q \in Requests}]

\* ConduitRequest::new(parts, body): a cursor at 0 over the buffered body
\* and a new, empty store of extensions.
ConduitRequestNew(parts, body) ==
    [parts |-> parts, body |-> body, pos |-> 0, extensions |-> {}]

\* concat2 putting the arrived chunk in front of the accumulator.
concat2_prepend(acc, chunk) == chunk \o acc

\* One step of concat2: the arrived chunk is appended to the accumulator.
concat2(acc, chunk) == acc \o chunk

\* The keys handlers put in the extensions of their request.
ExtKeys == {"user", "session"}

\* The outcomes of handler.call the lifecycle draws from.
OkGood == Ok([status |-> 404,
              headers |-> MapOfPairs(<< <<NameA, ValX>>, <<NameA, ValY>> >>, {}),
              body |-> WriterOk])
OkBadHeader == Ok([status |-> 100,
                   headers |-> MapOfPairs(<< <<Nameb, ValLF>> >>, {}),
                   body |-> WriterOk])
LifecycleCalls == {OkGood, OkBadHeader, HandlerPanic} \cup {Err(d) : d \in Descriptions}

Running == {r \in Requests : phase[r] = "HandlerRunning"}

\* Service::new(handler, threads): the one pool and the one handler, named
\* by the numbers 1.
Service_new == [pool |-> 1, handler |-> 1]

NoService == [pool |-> 0, handler |-> 0]

\* Clone for Service building a pool and a handler of its own.
Service_clone_fresh(s) == [pool |-> s.pool + 1, handler |-> s.handler + 1]

\* impl Clone for Service: pool.clone() and handler.clone() are further
\* handles on the same pool and the same handler.
Service_clone(s) == [pool |-> s.pool, handler |-> s.handler]

\* fn new_service(&self): future::ok(self.clone())
new_service(s) == Service_clone(s)

\* run(): Server::bind(&addr).serve(self.clone()), the copy hyper asks for a
\* Service per connection.
Served == Service_clone(Service_new)

\* The pools a copy of the Service can name: that of Service::new, and those
\* two clones in a row could make.
PoolIds == {1, 2, 3}

\* The threads a task gives back to the pool when its closure has returned
\* Ok(response): its own, whatever the handler did.
SlotsReleased_unless_failed(call) == IF call.kind = "ok" THEN 1 ELSE 0

SlotsReleased(call) == 1

\* handler.call returns only when the handler does: nothing times it out.
CanReturn_timeout(r) == TRUE

CanReturn(r) == ~hung[r]

\* The closure of and_then calling the handler itself, on the thread that
\* polls the future.
spawn_fn_inline == "reactor"

\* pool.spawn_fn(closure): the closure runs on a thread of the pool.
spawn_fn_thread == "worker"

\* The reactor thread is not inside a handler call: it can poll futures.
ReactorFree ==
    \A q \in Requests : phase[q] = "HandlerRunning" => runsOn[q] # "reactor"

\* The lifecycle state a handler outcome stands for.
Outcome(call) ==
    IF call.kind = "ok" THEN "HandlerSucceeded"
    ELSE IF call.kind = "panic" THEN "HandlerFailed"
    ELSE "HandlerReturnedError"

\* The state after Service::new(handler, threads), no request received yet.
Constructed(threads) ==
    /\ poolSize = threads
    /\ busy = [p \in PoolIds |-> 0]
    /\ svc = [r \in Requests |-> NoService]
    /\ hung = [r \in Requests |-> FALSE]
    /\ runsOn = [r \in Requests |-> "none"]
    /\ lifecycle = [r \in Requests |-> <<>>]
    /\ phase = [r \in Requests |-> "none"]
    /\ chunks = [r \in Requests |-> <<>>]
    /\ pending = [r \in Requests |-> <<>>]
    /\ buffered = [r \in Requests |-> <<>>]
    /\ conduit = [r \in Requests |-> NoRequest]
    /\ hcall = [r \in Requests |-> Ok(NoResponse)]
    /\ taskOut = [r \in Requests |-> NotBuilt]
    /\ responses = [r \in Requests |-> <<>>]
    /\ log = [r \in Requests |-> <<>>]
    /\ reactorPanicked = FALSE
    /\ extWritten = [r \in Requests |-> {}]
    /\ overlapped = [r \in Requests |-> FALSE]

Init ==
    /\ Constructed(MaxThreads)
    /\ RespIdle /\ HeadIdle /\ BodyIdle

\* Service::call(request): the future starts buffering the body. Requests
\* are numbered in the order hyper hands them to call.
Call(r) ==
    /\ ReactorFree
    /\ phase[r] = "none"
    /\ r > 1 => phase[r - 1] # "none"
    /\ \E n \in 0..MaxChunks :
          /\ chunks' = [chunks EXCEPT ![r] = [j \in 1..n |-> ChunkOf(r, j)]]
          /\ pending' = [pending EXCEPT ![r] = [j \in 1..n |-> ChunkOf(r, j)]]
    /\ phase' = [phase EXCEPT ![r] = "BodyBuffering"]
    /\ svc' = [svc EXCEPT ![r] = new_service(Served)]
    /\ lifecycle' = [lifecycle EXCEPT ![r] = <<"Received", "BodyBuffering">>]
    /\ UNCHANGED <<poolSize, busy, hung, runsOn>>
    /\ UNCHANGED <<respVars, headVars, bodyVars>>
    /\ UNCHANGED <<buffered, conduit, hcall, taskOut, responses, log,
                   reactorPanicked, extWritten, overlapped>>

\* body.concat2(): the next chunk arrives and joins the accumulator.
ChunkArrives(r) ==
    /\ ReactorFree
    /\ phase[r] = "BodyBuffering"
    /\ pending[r] # <<>>
    /\ buffered' = [buffered EXCEPT ![r] = concat2(@, Head(pending[r]))]
    /\ pending' = [pending EXCEPT ![r] = Tail(@)]
    /\ UNCHANGED <<poolSize, busy, svc, hung, runsOn, lifecycle>>
    /\ UNCHANGED <<respVars, headVars, bodyVars>>
    /\ UNCHANGED <<phase, chunks, conduit, hcall, taskOut, responses, log,
                   reactorPanicked, extWritten, overlapped>>

\* The body stream ended: concat2 resolves and and_then's closure hands the
\* task to pool.spawn_fn.
BodyEnd(r) ==
    /\ ReactorFree
    /\ phase[r] = "BodyBuffering"
    /\ pending[r] = <<>>
    /\ phase' = [phase EXCEPT ![r] = "Dispatched"]
    /\ lifecycle' = [lifecycle EXCEPT ![r] = Append(@, "Dispatched")]
    /\ UNCHANGED <<poolSize, busy, svc, hung, runsOn>>
    /\ UNCHANGED <<respVars, headVars, bodyVars>>
    /\ UNCHANGED <<chunks, pending, buffered, conduit, hcall, taskOut,
                   responses, log, reactorPanicked, extWritten, overlapped>>

\* The body stream failed and the closure runs all the same, on what was
\* buffered so far (then in place of and_then).
BodyError_then(r) ==
    /\ phase[r] = "BodyBuffering"
    /\ phase' = [phase EXCEPT ![r] = "Dispatched"]
    /\ pending' = [pending EXCEPT ![r] = <<>>]
    /\ lifecycle' = [lifecycle EXCEPT ![r] =
                        @ \o <<"TransportError", "Dispatched">>]
    /\ UNCHANGED <<poolSize, busy, svc, hung, runsOn>>
    /\ UNCHANGED <<respVars, headVars, bodyVars>>
    /\ UNCHANGED <<chunks, buffered, conduit, hcall, taskOut,
                   responses, log, reactorPanicked, extWritten, overlapped>>

\* The body stream failed: concat2 resolves to the hyper::Error, and_then
\* skips its closure and the future of call resolves to that error.
BodyError(r) ==
    /\ ReactorFree
    /\ phase[r] = "BodyBuffering"
    /\ phase' = [phase EXCEPT ![r] = "TransportError"]
    /\ chunks' = [chunks EXCEPT ![r] = <<>>]
    /\ pending' = [pending EXCEPT ![r] = <<>>]
    /\ buffered' = [buffered EXCEPT ![r] = <<>>]
    /\ lifecycle' = [lifecycle EXCEPT ![r] = Append(@, "TransportError")]
    /\ UNCHANGED <<poolSize, busy, svc, hung, runsOn>>
    /\ UNCHANGED <<respVars, headVars, bodyVars>>
    /\ UNCHANGED <<conduit, hcall, taskOut,
                   responses, log, reactorPanicked, extWritten, overlapped>>

\* A free thread of the pool takes the task: the closure builds the
\* ConduitRequest and calls the handler.
WorkerStart(r) ==
    /\ phase[r] = "Dispatched"
    /\ busy[svc[r].pool] < poolSize
    /\ busy' = [busy EXCEPT ![svc[r].pool] = @ + 1]
    /\ lifecycle' = [lifecycle EXCEPT ![r] = Append(@, "HandlerRunning")]
    /\ runsOn' = [runsOn EXCEPT ![r] = spawn_fn_thread]
    /\ UNCHANGED <<poolSize, svc, hung>>
    /\ conduit' = [conduit EXCEPT ![r] = ConduitRequestNew(PartsOf(r), buffered[r])]
    /\ buffered' = [buffered EXCEPT ![r] = <<>>]
    /\ extWritten' = [extWritten EXCEPT ![r] = {}]
    /\ phase' = [phase EXCEPT ![r] = "HandlerRunning"]
    /\ UNCHANGED <<respVars, headVars, bodyVars>>
    /\ UNCHANGED <<chunks, pending, hcall, taskOut, responses, log,
                   reactorPanicked, overlapped>>

\* The handler inserts into request.mut_extensions().
HandlerExtInsert(r) ==
    /\ phase[r] = "HandlerRunning"
    /\ UNCHANGED <<poolSize, busy, svc, hung, runsOn, lifecycle>>
    /\ \E k \in ExtKeys \ conduit[r].extensions :
          /\ conduit' = [conduit EXCEPT ![r].extensions = @ \cup {k}]
          /\ extWritten' = [extWritten EXCEPT ![r] = @ \cup {k}]
    /\ UNCHANGED <<respVars, headVars, bodyVars>>
    /\ UNCHANGED <<phase, chunks, pending, buffered, hcall, taskOut, responses,
                   log, reactorPanicked, overlapped>>

\* handler.call ends (Ok, Err or a panic); the rest of the closure builds
\* the task's value, the request is dropped and the thread is free again.
HandlerEnds(r) ==
    /\ phase[r] = "HandlerRunning"
    /\ CanReturn(r)
    /\ \E call \in LifecycleCalls :
       \E order \in Perms(DOMAIN call.response.headers) :
          LET built == spawned_task(call, order)
          IN /\ hcall' = [hcall EXCEPT ![r] = call]
             /\ taskOut' = [taskOut EXCEPT ![r] = built]
             /\ log' = [log EXCEPT ![r] = @ \o built.log]
             /\ busy' = [busy EXCEPT ![svc[r].pool] = @ - SlotsReleased(call)]
             /\ lifecycle' = [lifecycle EXCEPT ![r] =
                                 @ \o <<Outcome(call), "ResponseBuilt">>]
    /\ runsOn' = [runsOn EXCEPT ![r] = "none"]
    /\ UNCHANGED <<poolSize, svc, hung>>
    /\ overlapped' = [overlapped EXCEPT ![r] =
                       \E q \in Requests \ {r} :
                           phase[q] \in {"BodyBuffering", "HandlerRunning"}]
    /\ conduit' = [conduit EXCEPT ![r] = NoRequest]
    /\ chunks' = [chunks EXCEPT ![r] = <<>>]
    /\ extWritten' = [extWritten EXCEPT ![r] = {}]
    /\ phase' = [phase EXCEPT ![r] = "ResponseBuilt"]
    /\ UNCHANGED <<respVars, headVars, bodyVars>>
    /\ UNCHANGED <<pending, buffered, responses, reactorPanicked>>

\* A future that yields its response at every poll, the ones after it
\* resolved included.
Respond_again(r) ==
    /\ phase[r] \in {"ResponseBuilt", "Sent"}
    /\ responses' = [responses EXCEPT ![r] = Append(@, taskOut[r].resp)]
    /\ phase' = [phase EXCEPT ![r] = "Sent"]
    /\ overlapped' = [overlapped EXCEPT ![r] = FALSE]
    /\ lifecycle' = [lifecycle EXCEPT ![r] = Append(@, "Sent")]
    /\ UNCHANGED <<poolSize, busy, svc, hung, runsOn, reactorPanicked>>
    /\ UNCHANGED <<respVars, headVars, bodyVars>>
    /\ UNCHANGED <<chunks, pending, buffered, conduit, hcall, taskOut, log,
                   extWritten>>

\* The reactor polls the CpuFuture: a task that unwound is resumed as a
\* panic on the polling thread, any other value is the response of call.
Respond(r) ==
    /\ ReactorFree
    /\ phase[r] = "ResponseBuilt"
    /\ IF taskOut[r].kind = "panic"
       THEN /\ reactorPanicked' = TRUE
            /\ UNCHANGED responses
       ELSE /\ responses' = [responses EXCEPT ![r] = Append(@, taskOut[r].resp)]
            /\ UNCHANGED reactorPanicked
    /\ phase' = [phase EXCEPT ![r] = "Sent"]
    /\ overlapped' = [overlapped EXCEPT ![r] = FALSE]
    /\ lifecycle' = [lifecycle EXCEPT ![r] = Append(@, "Sent")]
    /\ UNCHANGED <<poolSize, busy, svc, hung, runsOn>>
    /\ UNCHANGED <<respVars, headVars, bodyVars>>
    /\ UNCHANGED <<chunks, pending, buffered, conduit, hcall, taskOut, log,
                   extWritten>>

\* The handler call of r blocks for good: it will never return.
HandlerHangs(r) ==
    /\ phase[r] = "HandlerRunning"
    /\ ~hung[r]
    /\ hung' = [hung EXCEPT ![r] = TRUE]
    /\ UNCHANGED <<respVars, headVars, bodyVars>>
    /\ UNCHANGED <<phase, chunks, pending, buffered, conduit, hcall, taskOut,
                   responses, log, reactorPanicked, extWritten, overlapped,
                   poolSize, busy, svc, runsOn, lifecycle>>

Next ==
    \E r \in Requests :
        \/ Call(r)
        \/ ChunkArrives(r)
        \/ BodyEnd(r)
        \/ BodyError(r)
        \/ WorkerStart(r)
        \/ HandlerExtInsert(r)
        \/ HandlerEnds(r)
        \/ Respond(r)

Spec == Init /\ [][Next]_vars

\* SpecPool: the same service built with any thread count up to MaxThreads
\* and a handler that may also never return; what the handler does to the
\* extensions of its request is left to Spec.
InitPool ==
    /\ \E threads \in 1..MaxThreads : Constructed(threads)
    /\ RespIdle /\ HeadIdle /\ BodyIdle

NextPool ==
    \E r \in Requests :
        \/ Call(r)
        \/ ChunkArrives(r)
        \/ BodyEnd(r)
        \/ BodyError(r)
        \/ WorkerStart(r)
        \/ HandlerHangs(r)
        \/ HandlerEnds(r)
        \/ Respond(r)

SpecPool == InitPool /\ [][NextPool]_vars

-----------------------------------------------------------------------------
(* Claims about the lifecycle (Spec).                                      *)

\* The future of call has resolved: to a response or to a transport error.
Resolved(r) == phase[r] \in {"Sent", "TransportError"}

\* The worker task of r has ended.
TaskEnded(r) == phase[r] \in {"ResponseBuilt", "Sent"}

\* C1 as stated: every request handed to Service::call yields exactly one
\* outgoing response, never zero and never more than one.
C1_ExactlyOneResponse ==
    \A r \in Requests :
        /\ Len(responses[r]) <= 1
        /\ Resolved(r) => Len(responses[r]) = 1

\* C1 amended: every request whose body was received in full and whose
\* handler call ended (with a response, an error or a panic) yields exactly
\* one outgoing response when its future resolves, and no request ever
\* yields more than one; a request whose body stream failed yields none.
C1_OneResponsePerBufferedRequest ==
    \A r \in Requests :
        /\ Len(responses[r]) <= 1
        /\ phase[r] = "Sent" =>
              /\ hcall[r].kind \in {"ok", "err", "panic"}
              /\ Len(responses[r]) = 1
        /\ phase[r] # "Sent" => Len(responses[r]) = 0

\* Two requests were answered with one response each: the handler panicked
\* on one and returned an error on the other.
C1_Witness ==
    /\ \A r \in {1, 2} : phase[r] = "Sent" /\ Len(responses[r]) = 1
    /\ {hcall[1].kind, hcall[2].kind} = {"err", "panic"}

\* The response the client of a request gets for what its own handler call
\* did, for the calls of LifecycleCalls.
OwnResponse(call) ==
    IF call = OkGood
    THEN [status |-> 404,
          headers |-> << <<Namea, ValX>>, <<Namea, ValY>> >>,
          body |-> "hello"]
    ELSE FixedResponse

OwnLog(call) ==
    IF call.kind = "panic" THEN << <<LogPrefix, PanicMsg>> >>
    ELSE IF call.kind = "err" THEN << <<LogPrefix, call.description>> >>
    ELSE IF call = OkBadHeader THEN << <<LogPrefix, InvalidValueMsg>> >>
    ELSE <<>>

\* C2: a request whose handler panicked gets status 500 with the fixed body
\* and the fixed crash message is logged; every request, whatever the other
\* requests' handlers did meanwhile, gets the response of its own handler
\* call; no panic reaches the reactor thread.
C2_PanicIsolated ==
    /\ ~reactorPanicked
    /\ \A r \in Requests :
          /\ TaskEnded(r) =>
                /\ taskOut[r].kind = "response"
                /\ taskOut[r].resp = OwnResponse(hcall[r])
                /\ log[r] = OwnLog(hcall[r])
                /\ hcall[r].kind = "panic" =>
                      /\ taskOut[r].resp.status = 500
                      /\ taskOut[r].resp.body = "Internal Server Error"
                      /\ log[r] = << <<"Internal Server Error: ",
                                       "Application handler paniced">> >>
          /\ phase[r] = "Sent" => responses[r] = <<OwnResponse(hcall[r])>>

\* Request 1 panicked while request 2 was in flight, and request 2 has been
\* answered with its own 404 response.
C2_Witness ==
    /\ phase[1] = "ResponseBuilt" /\ hcall[1].kind = "panic" /\ overlapped[1]
    /\ phase[2] = "Sent" /\ hcall[2] = OkGood
    /\ responses[2] = <<OwnResponse(OkGood)>>

\* C3: a handler error's description is written to the log and the client
\* gets status 500 with the fixed body and no headers, nothing of the
\* description.
C3_ErrorDescriptionOnlyLogged ==
    \A r \in Requests :
        (TaskEnded(r) /\ hcall[r].kind = "err") =>
            /\ taskOut[r].resp.status = 500
            /\ taskOut[r].resp.headers = <<>>
            /\ taskOut[r].resp.body = "Internal Server Error"
            /\ taskOut[r].resp.body # hcall[r].description
            /\ log[r] = << <<LogPrefix, hcall[r].description>> >>
            /\ phase[r] = "Sent" => responses[r] = <<taskOut[r].resp>>

C3_Witness ==
    \E r \in Requests :
        /\ phase[r] = "Sent"
        /\ hcall[r] = Err("bad state")
        /\ log[r] = << <<LogPrefix, "bad state">> >>
        /\ responses[r] = <<FixedResponse>>

RECURSIVE Flatten(_)
Flatten(cs) == IF cs = <<>> THEN <<>> ELSE Head(cs) \o Flatten(Tail(cs))

\* C7: no task is dispatched and no handler runs before every chunk of the
\* request has arrived; the body the handler reads is the chunks of its own
\* request, joined in arrival order, and holds no byte of another request.
C7_HandlerSeesWholeBody ==
    \A r \in Requests :
        /\ phase[r] \in {"Dispatched", "HandlerRunning"} => pending[r] = <<>>
        /\ phase[r] = "Dispatched" => buffered[r] = Flatten(chunks[r])
        /\ phase[r] = "HandlerRunning" =>
              /\ conduit[r].body = Flatten(chunks[r])
              /\ \A i \in 1..Len(conduit[r].body) :
                    conduit[r].body[i] \div 10 = r

\* A handler reads a two-chunk body while the chunks of another request are
\* still arriving.
C7_Witness ==
    \E r, q \in Requests :
        /\ phase[r] = "HandlerRunning"
        /\ conduit[r].body = <<10 * r + 1, 10 * r + 2>>
        /\ phase[q] = "BodyBuffering"
        /\ buffered[q] # <<>> /\ pending[q] # <<>>

\* C9: the store of extensions a handler invocation sees holds what this
\* invocation put there and nothing else: it is empty when the invocation
\* starts, whatever other invocations wrote into theirs.
C9_FreshExtensions ==
    \A r \in Requests :
        /\ phase[r] = "HandlerRunning" => conduit[r].extensions = extWritten[r]
        /\ phase[r] # "HandlerRunning" => conduit[r] = NoRequest

\* One running invocation has filled its store and the invocation running
\* beside it sees an empty store.
C9_Witness ==
    \E r, q \in Requests :
        /\ phase[r] = "HandlerRunning" /\ conduit[r].extensions = ExtKeys
        /\ phase[q] = "HandlerRunning" /\ conduit[q].extensions = {}

-----------------------------------------------------------------------------
(* SpecBody: the body of a ConduitRequest inside one handler invocation    *)
(* (lib.rs 159-162): body() hands out the cursor, the handler reads it.    *)

\* body() leaving the cursor where the last read left it.
ConduitRequest_body_no_reset(req) == req

\* fn body(&mut self) -> &mut Read: self.body.set_position(0); &mut self.body
ConduitRequest_body(req) == [req EXCEPT !.pos = 0]

\* Read::read on the Cursor with a buffer of n bytes: the bytes from the
\* position on, as many as fit, and the position moved past them.
Cursor_read(req, n) ==
    LET start == Min(req.pos, Len(req.body))
        amt == Min(n, Len(req.body) - start)
    IN [req |-> [req EXCEPT !.pos = @ + amt],
        bytes |-> SubSeq(req.body, start + 1, start + amt)]

\* The verbs with a constant in http::Method that method() matches on.
StandardVerbs == {"CONNECT", "DELETE", "GET", "HEAD", "OPTIONS", "PATCH",
                  "POST", "PUT", "TRACE"}

\* The verbs of the requests: the standard ones and some extension verbs
\* (verbs are case-sensitive tokens).
Verbs == StandardVerbs \cup {"PURGE", "get", "PROPFIND"}

Variant(v) == [variant |-> v, name |-> ""]
Other(name) == [variant |-> "Other", name |-> name]

\* method() with the arm of HEAD giving Get.
method_head_as_get(req) ==
    IF req.parts.method \in {"GET", "HEAD"} THEN Variant("Get")
    ELSE Other(req.parts.method)

\* fn method(&self) -> conduit::Method
method(req) ==
    LET m == req.parts.method
    IN CASE m = "CONNECT" -> Variant("Connect")
         [] m = "DELETE" -> Variant("Delete")
         [] m = "GET" -> Variant("Get")
         [] m = "HEAD" -> Variant("Head")
         [] m = "OPTIONS" -> Variant("Options")
         [] m = "PATCH" -> Variant("Patch")
         [] m = "POST" -> Variant("Post")
         [] m = "PUT" -> Variant("Put")
         [] m = "TRACE" -> Variant("Trace")
         [] OTHER -> Other(m)

NotAsked == [done |-> FALSE, value |-> Other("")]

BodyBytes == {1, 2}

InitBody ==
    /\ fullBody \in SeqsUpTo(BodyBytes, MaxBodyLen)
    /\ \E m \in Verbs :
          creq = ConduitRequestNew([PartsOf(1) EXCEPT !.method = m], fullBody)
    /\ methodOut = NotAsked
    /\ readOut = <<>>
    /\ lastOp = "none"
    /\ bodyCalls = 0
    /\ MainIdle /\ RespIdle /\ HeadIdle

\* The handler calls request.body().
BodyCall ==
    /\ bodyCalls < MaxBodyCalls
    /\ creq' = ConduitRequest_body(creq)
    /\ readOut' = <<>>
    /\ lastOp' = "body"
    /\ bodyCalls' = bodyCalls + 1
    /\ UNCHANGED <<fullBody, methodOut, mainVars, respVars, headVars>>

\* The handler reads into a buffer of n bytes from the reader body() gave.
BodyRead ==
    /\ lastOp # "none"
    /\ \E n \in 1..MaxBodyLen :
          LET got == Cursor_read(creq, n)
          IN /\ creq' = got.req
             /\ readOut' = readOut \o got.bytes
    /\ lastOp' = "read"
    /\ UNCHANGED <<fullBody, bodyCalls, methodOut, mainVars, respVars, headVars>>

\* The handler reads to the end (read_to_end): reads until a read gives
\* no byte.
BodyReadToEnd ==
    /\ lastOp # "none"
    /\ LET got == Cursor_read(creq, Len(creq.body))
       IN /\ creq' = got.req
          /\ readOut' = readOut \o got.bytes
    /\ lastOp' = "read_to_end"
    /\ UNCHANGED <<fullBody, bodyCalls, methodOut, mainVars, respVars, headVars>>

\* The handler calls request.method().
MethodCall ==
    /\ ~methodOut.done
    /\ methodOut' = [done |-> TRUE, value |-> method(creq)]
    /\ UNCHANGED <<creq, fullBody, readOut, lastOp, bodyCalls>>
    /\ UNCHANGED <<mainVars, respVars, headVars>>

NextBody == BodyCall \/ BodyRead \/ BodyReadToEnd \/ MethodCall

SpecBody == InitBody /\ [][NextBody]_vars

\* C8: body() puts the cursor at 0 and leaves the buffered bytes alone, so
\* what the handler reads after a call of body() starts at the first byte,
\* and reading to the end after it yields the entire body.
C8_BodyRereadable ==
    /\ creq.body = fullBody
    /\ lastOp = "body" => creq.pos = 0 /\ readOut = <<>>
    /\ lastOp # "none" => readOut = SubSeq(fullBody, 1, creq.pos)
    /\ lastOp = "read_to_end" => readOut = fullBody

\* After a partial read and a second call of body(), reading to the end
\* gave the whole three-byte body.
C8_Witness ==
    /\ bodyCalls = 2
    /\ Len(fullBody) = 3
    /\ lastOp = "read_to_end"
    /\ readOut = fullBody

-----------------------------------------------------------------------------
(* SpecHeaders: conduit::Headers for Parts (lib.rs 27-64). The HeaderMap   *)
(* of a request is its header lines in arrival order, each name already a  *)
(* normalised HeaderName.                                                  *)

None == [some |-> FALSE, value |-> <<>>]
Some(v) == [some |-> TRUE, value |-> v]

\* self.headers().get_all(key).iter(): the values of the lines named key,
\* in arrival order; a key that is no header name matches nothing.
get_all(headers, key) ==
    LET n == HeaderName_from_str(key)
        T(line) == n.ok /\ line[1] = n.name
        sel == SelectSeq(headers, T)
    IN [i \in 1..Len(sel) |-> sel[i][2]]

\* self.headers().contains_key(key)
contains_key(headers, key) ==
    LET n == HeaderName_from_str(key)
    IN n.ok /\ \E i \in 1..Len(headers) : headers[i][1] = n.name

\* A decoding that keeps the bytes it cannot read.
to_str_or_empty_lossy(v) == v

\* v.to_str().unwrap_or("")
to_str_or_empty(v) == IF to_str(v).ok THEN to_str(v).text ELSE <<>>

\* find without the is_empty test: Some of whatever was collected.
find_always_some(parts, key) ==
    LET vs == get_all(parts.headers, key)
    IN Some([i \in 1..Len(vs) |-> to_str_or_empty(vs[i])])

\* fn find(&self, key: &str) -> Option<Vec<&str>>
find(parts, key) ==
    LET vs == get_all(parts.headers, key)
        values == [i \in 1..Len(vs) |-> to_str_or_empty(vs[i])]
    IN IF values = <<>> THEN None ELSE Some(values)

\* fn has(&self, key: &str) -> bool
has(parts, key) == contains_key(parts.headers, key)

\* self.headers().keys(): the names of the map in the order the map got
\* them, each name once per value it has (the defect of HeaderMap::keys the
\* comment on all() refers to).
RECURSIVE HeaderMap_keys_from(_, _)
HeaderMap_keys_from(headers, i) ==
    IF i > Len(headers) THEN <<>>
    ELSE LET name == headers[i][1]
             isFirst == \A j \in 1..(i - 1) : headers[j][1] # name
             count == Cardinality({j \in 1..Len(headers) : headers[j][1] = name})
         IN (IF isFirst THEN [k \in 1..count |-> name] ELSE <<>>)
            \o HeaderMap_keys_from(headers, i + 1)

HeaderMap_keys(headers) == HeaderMap_keys_from(headers, 1)

\* fn all(&self) -> Vec<(&str, Vec<&str>)>: one pair per key that keys()
\* yields, with what find gives for it.
all(parts) ==
    LET keys == HeaderMap_keys(parts.headers)
    IN [i \in 1..Len(keys) |->
          [key |-> keys[i], values |-> find(parts, keys[i]).value]]

\* "host"
NameHost == <<104, 111, 115, 116>>

\* self.parts.headers().get("host"): the first value of the name, if any.
HeaderMap_get(headers, key) ==
    LET vs == get_all(headers, key)
    IN IF vs = <<>> THEN None ELSE Some(vs[1])

\* fn host(&self) -> Host: get("host").map(|h| h.to_str().unwrap_or(""))
\* .unwrap_or("")
host(parts) ==
    LET h == HeaderMap_get(parts.headers, NameHost)
    IN IF h.some THEN to_str_or_empty(h.value) ELSE <<>>

RequestNames == {Namea, Nameb, NameHost}
RequestValues == {ValX, ValY, ValObs}
LookupKeys == {NameA, Namea, Nameb, <<99>>, NameSpace, NameEmpty}

NotLooked == [done |-> FALSE, find |-> None, has |-> FALSE, all |-> <<>>,
              host |-> <<>>]

InitHeaders ==
    /\ \E lines \in SeqsUpTo(RequestNames \X RequestValues, MaxHeaderLines) :
          hv_parts = [method |-> "GET", headers |-> lines]
    /\ hv_key \in LookupKeys
    /\ hv_out = NotLooked
    /\ MainIdle /\ RespIdle /\ BodyIdle

\* The handler asks request.headers() for the key and for all(), and the
\* request for host().
Lookup ==
    /\ ~hv_out.done
    /\ hv_out' = [done |-> TRUE,
                  find |-> find(hv_parts, hv_key),
                  has |-> has(hv_parts, hv_key),
                  all |-> all(hv_parts),
                  host |-> host(hv_parts)]
    /\ UNCHANGED <<hv_parts, hv_key, mainVars, respVars, bodyVars>>

NextHeaders == Lookup

SpecHeaders == InitHeaders /\ [][NextHeaders]_vars

\* The lines of the collection whose name is the key.
Occurrences(lines, key) ==
    LET T(line) == SameKey(line[1], key)
    IN SelectSeq(lines, T)

\* A value as the handler gets it: its text, or "" when it does not decode.
Decoded(v) ==
    IF \A i \in 1..Len(v) : v[i] \in 32..126 \/ v[i] = 9 THEN v ELSE <<>>

\* C10: find(key) is absent exactly when no line has the key; otherwise it
\* is a non-empty list with one entry per occurrence of the key, in order
\* of occurrence; has(key) is true exactly when find(key) is present.
C10_FindAndHas ==
    hv_out.done =>
        LET occ == Occurrences(hv_parts.headers, hv_key)
        IN /\ hv_out.find.some <=> occ # <<>>
           /\ hv_out.find.some =>
                 /\ hv_out.find.value # <<>>
                 /\ Len(hv_out.find.value) = Len(occ)
                 /\ \A j \in 1..Len(occ) :
                       hv_out.find.value[j] = Decoded(occ[j][2])
           /\ hv_out.has <=> hv_out.find.some

\* Key "A" over the lines a: x, b: y, a: y was found twice, x then y.
C10_Witness ==
    /\ hv_out.done
    /\ hv_key = NameA
    /\ hv_parts.headers = << <<Namea, ValX>>, <<Nameb, ValY>>, <<Namea, ValY>> >>
    /\ hv_out.find = Some(<<ValX, ValY>>)
    /\ hv_out.has

\* The values, as the handler gets them, of the lines named key.
DecodedValues(lines, key) ==
    LET occ == Occurrences(lines, key)
    IN [j \in 1..Len(occ) |-> Decoded(occ[j][2])]

\* C11: all() lists each distinct key of the collection exactly once, with
\* all the values of that key in order of occurrence; a key on several
\* lines is not listed once per line.
C11_AllListsEachKeyOnce ==
    hv_out.done =>
        LET lines == hv_parts.headers
            out == hv_out.all
        IN /\ \A i \in 1..Len(lines) :
                 Cardinality({k \in 1..Len(out) :
                                 SameKey(out[k].key, lines[i][1])}) = 1
           /\ \A k \in 1..Len(out) :
                 /\ \E i \in 1..Len(lines) : SameKey(out[k].key, lines[i][1])
                 /\ out[k].values = DecodedValues(lines, out[k].key)

VerbOf(out) ==
    CASE out.variant = "Connect" -> "CONNECT"
      [] out.variant = "Delete" -> "DELETE"
      [] out.variant = "Get" -> "GET"
      [] out.variant = "Head" -> "HEAD"
      [] out.variant = "Options" -> "OPTIONS"
      [] out.variant = "Patch" -> "PATCH"
      [] out.variant = "Post" -> "POST"
      [] out.variant = "Put" -> "PUT"
      [] out.variant = "Trace" -> "TRACE"
      [] OTHER -> out.name

\* C13: method() gives each of the nine standard verbs its own variant and
\* any other verb Other(name) with name the verb as received; no other
\* verb gets a standard variant and no two verbs get the same result.
C13_MethodMapping ==
    methodOut.done =>
        LET m == creq.parts.method
            out == methodOut.value
        IN /\ VerbOf(out) = m
           /\ out.variant # "Other" <=> m \in StandardVerbs
           /\ out.variant = "Other" => out.name = m
           /\ out.variant # "Other" => out.name = ""
           /\ \A m2 \in Verbs \ {m} :
                 method([creq EXCEPT !.parts.method = m2]) # out

\* The verb "get", which is not GET, gave Other("get").
C13_Witness ==
    /\ methodOut.done
    /\ creq.parts.method = "get"
    /\ methodOut.value = Other("get")

\* C17: when the body writer fails, also after it wrote some bytes, or a
\* header key or value cannot be written as a header line, the outgoing
\* response is the fallback and nothing else: status 500, the fixed body,
\* no headers; neither the bytes written so far, nor the handler's status,
\* nor its other headers are in it.
C17_PartialResponseDiscarded ==
    (/\ gr_out.kind # "none"
     /\ gr_in.kind = "ok"
     /\ \/ gr_in.response.body.result = "err"
        \/ ~Representable(gr_in.response.headers))
    => /\ gr_out.kind = "response"
       /\ gr_out.resp = FixedResponse
       /\ gr_out.resp.status # gr_in.response.status
       /\ gr_out.resp.body # gr_in.response.body.bytes

\* The handler answered 404 with the lines A: x, A: y and a writer that
\* failed after "hel": the task's response is the fallback.
C17_Witness ==
    /\ gr_in.kind = "ok"
    /\ gr_in.response.status = 404
    /\ gr_in.response.headers = MapOfPairs(<< <<NameA, ValX>>, <<NameA, ValY>> >>, {})
    /\ gr_in.response.body = WriterErr
    /\ gr_out.kind = "response"
    /\ gr_out.resp = FixedResponse
    /\ gr_out.log = << <<LogPrefix, WriteBodyMsg>> >>

-----------------------------------------------------------------------------
(* Claims about the order of the lifecycle and about the pool.             *)

Outcomes == {"HandlerSucceeded", "HandlerFailed", "HandlerReturnedError"}

\* The three full runs of a request through the lifecycle.
LifecyclePaths ==
    {<<"Received", "BodyBuffering", "Dispatched", "HandlerRunning", o,
       "ResponseBuilt", "Sent">> : o \in Outcomes}

IsPrefix(s, t) == Len(s) <= Len(t) /\ s = SubSeq(t, 1, Len(s))

Last(s) == s[Len(s)]

\* How often a lifecycle state is in the history of a request.
Times(r, st) == Cardinality({i \in 1..Len(lifecycle[r]) : lifecycle[r][i] = st})

\* The history of a request without the transport error that may end it.
Listed(r) ==
    LET T(st) == st # "TransportError"
    IN SelectSeq(lifecycle[r], T)

\* C14: a request goes through Received, BodyBuffering, Dispatched,
\* HandlerRunning, one of the three handler outcomes, ResponseBuilt and
\* Sent in that order, skipping and revisiting none; after each of the
\* three outcomes the response is built, can be sent, and once sent is the
\* one response of the request.
C14_LifecycleOrder ==
    \A r \in Requests :
        /\ \E path \in LifecyclePaths : IsPrefix(Listed(r), path)
        /\ (\E o \in Outcomes : Times(r, o) = 1) =>
              \/ /\ Last(lifecycle[r]) = "ResponseBuilt"
                 /\ ENABLED Respond(r)
              \/ /\ Last(lifecycle[r]) = "Sent"
                 /\ Len(responses[r]) = 1
                 /\ ~ENABLED Respond(r)

\* Each of the three outcomes was followed by ResponseBuilt and Sent: here
\* request 1 after a handler panic and request 2 after a success.
C14_Witness ==
    /\ lifecycle[1] = <<"Received", "BodyBuffering", "Dispatched",
                        "HandlerRunning", "HandlerFailed", "ResponseBuilt",
                        "Sent">>
    /\ lifecycle[2] = <<"Received", "BodyBuffering", "Dispatched",
                        "HandlerRunning", "HandlerSucceeded", "ResponseBuilt",
                        "Sent">>

\* C19: the handler is invoked at most once for a request and only after
\* the whole body was buffered; after a transport error on the body no
\* task is dispatched and the handler is never invoked for that request,
\* while the other requests go on and get the response of their own call.
C19_HandlerAtMostOnce ==
    \A r \in Requests :
        /\ Times(r, "Dispatched") <= 1
        /\ Times(r, "HandlerRunning") <= 1
        /\ Times(r, "HandlerRunning") = 1 =>
              IsPrefix(<<"Received", "BodyBuffering", "Dispatched",
                         "HandlerRunning">>, lifecycle[r])
        /\ Times(r, "TransportError") > 0 =>
              /\ Times(r, "Dispatched") = 0
              /\ Times(r, "HandlerRunning") = 0
              /\ conduit[r] = NoRequest
              /\ taskOut[r] = NotBuilt
              /\ ~ENABLED WorkerStart(r)
              /\ ~ENABLED HandlerEnds(r)
              /\ \A q \in Requests \ {r} :
                    /\ phase[q] = "Dispatched" /\ Cardinality(Running) < poolSize
                          => ENABLED WorkerStart(q)
                    /\ phase[q] = "HandlerRunning" /\ ~hung[q]
                          => ENABLED HandlerEnds(q)
                    /\ TaskEnded(q) => taskOut[q].resp = OwnResponse(hcall[q])

\* The body of request 1 failed after a chunk had arrived; request 2,
\* received later, was answered with the response of its own call.
C19_Witness ==
    /\ phase[1] = "TransportError"
    /\ lifecycle[1] = <<"Received", "BodyBuffering", "TransportError">>
    /\ phase[2] = "Sent"
    /\ hcall[2] = OkGood
    /\ responses[2] = <<OwnResponse(OkGood)>>

\* The requests whose handler call will never return.
Hung == {r \in Requests : hung[r]}

\* Request r is the next one hyper hands to call.
NextToCall(r) == phase[r] = "none" /\ (r > 1 => phase[r - 1] # "none")

\* C15: a handler call runs on a thread of the pool, never on the reactor
\* thread; whatever the number of calls running or hung, every worker
\* taken included, the reactor can receive the next request and go on
\* buffering the bodies of the received ones.
C15_ReactorNeverBlocked ==
    \A r \in Requests :
        /\ phase[r] = "HandlerRunning" => runsOn[r] = "worker"
        /\ NextToCall(r) => ENABLED Call(r)
        /\ phase[r] = "BodyBuffering" /\ pending[r] # <<>>
              => ENABLED ChunkArrives(r)
        /\ phase[r] = "BodyBuffering" /\ pending[r] = <<>>
              => ENABLED BodyEnd(r)

\* The only worker is held by the hung call of request 1; request 2 was
\* received, one chunk of its body is buffered and the next can be.
C15_Witness ==
    /\ poolSize = 1 /\ busy[1] = 1
    /\ hung[1] /\ phase[1] = "HandlerRunning"
    /\ phase[2] = "BodyBuffering"
    /\ buffered[2] # <<>> /\ pending[2] # <<>>
    /\ ENABLED ChunkArrives(2)

\* What holds in every state with hung calls: a request with a hung call
\* has no step left and no response, a call running on another worker can
\* end, and with every worker held by a hung call no handler starts.
HungHoldsWorker ==
    /\ \A r \in Hung :
          /\ phase[r] = "HandlerRunning"
          /\ Times(r, "Sent") = 0 /\ responses[r] = <<>>
          /\ ~ENABLED HandlerEnds(r)
          /\ ~ENABLED Respond(r)
          /\ ~ENABLED HandlerHangs(r)
          /\ ~ENABLED WorkerStart(r)
          /\ ~ENABLED (Call(r) \/ ChunkArrives(r) \/ BodyEnd(r) \/ BodyError(r))
    /\ Cardinality(Hung) <= busy[Service_new.pool]
    /\ \A q \in Running \ Hung : ENABLED HandlerEnds(q)
    /\ Cardinality(Hung) = poolSize =>
          \A q \in Requests : ~ENABLED WorkerStart(q)

\* C16: a handler call that never returns holds its worker for good and
\* nothing cancels it or times it out: it stays hung and running at every
\* step, its request has no step left and is never Sent; a call running on
\* another worker can still end; and once every worker is held by a hung
\* call, no dispatched request starts its handler.
C16_HungHoldsWorker ==
    /\ []HungHoldsWorker
    /\ [][\A r \in Hung :
             /\ hung'[r]
             /\ phase'[r] = "HandlerRunning"
             /\ busy'[svc[r].pool] >= Cardinality(Hung)]_vars

\* The one worker is held by the hung call of request 1 and request 2 is
\* dispatched and waits.
C16_Witness ==
    /\ poolSize = 1
    /\ hung[1] /\ phase[1] = "HandlerRunning"
    /\ phase[2] = "Dispatched"
    /\ ~ENABLED WorkerStart(2)

\* What holds in every state: the copies name the pool and the handler of
\* Service::new and the calls running are no more than the pool's threads.
OnePoolOneHandler ==
    /\ Served = Service_new
    /\ new_service(Served) = Service_new
    /\ \A r \in Requests :
          phase[r] # "none" =>
             /\ svc[r].pool = Service_new.pool
             /\ svc[r].handler = Service_new.handler
    /\ Cardinality(Running) <= poolSize
    /\ busy[Service_new.pool] <= poolSize
    /\ \A p \in PoolIds \ {Service_new.pool} : busy[p] = 0
    /\ poolSize \in 1..MaxThreads

\* C18: every copy of the Service (clone, new_service) has the pool and the
\* handler that Service::new made, so over all copies the handler calls
\* running at one time are never more than the thread count given to
\* Service::new; no step changes the size of the pool or the pool and the
\* handler of a copy.
C18_OnePoolOneHandler ==
    /\ []OnePoolOneHandler
    /\ [][/\ poolSize' = poolSize
          /\ \A r \in Requests : phase[r] # "none" => svc'[r] = svc[r]]_vars

\* With one thread, the call of request 1 runs and request 2, received on
\* another copy of the Service, is dispatched and cannot start.
C18_Witness ==
    /\ poolSize = 1
    /\ phase[1] = "HandlerRunning" /\ ~hung[1]
    /\ phase[2] = "Dispatched"
    /\ svc[2] = Service_new
    /\ Cardinality(Running) = poolSize
    /\ ~ENABLED WorkerStart(2)

\* C20: a handler call that panicked or returned an error gives its worker
\* back: the workers taken are exactly those of the calls still running,
\* whatever the number of calls that failed, so a request dispatched later
\* starts on a free worker, with the same handler, and gets the response
\* of its own call.
C20_FailureReleasesWorker ==
    /\ busy[Service_new.pool] = Cardinality(Running)
    /\ \A q \in Requests :
          /\ phase[q] = "Dispatched" /\ Cardinality(Running) < poolSize
                => ENABLED WorkerStart(q)
          /\ phase[q] = "HandlerRunning" =>
                svc[q].handler = Service_new.handler /\ runsOn[q] = "worker"
          /\ TaskEnded(q) => taskOut[q].resp = OwnResponse(hcall[q])
          /\ phase[q] = "Sent" => responses[q] = <<OwnResponse(hcall[q])>>

\* With one thread: the call of request 1 panicked and its fallback was
\* sent; the call of request 2 now runs on the worker it gave back.
C20_Witness ==
    /\ poolSize = 1
    /\ phase[1] = "Sent" /\ hcall[1] = HandlerPanic
    /\ responses[1] = <<FixedResponse>>
    /\ phase[2] = "HandlerRunning"
    /\ svc[2].handler = Service_new.handler
    /\ busy[1] = 1

=============================================================================
